---------------------------- MODULE Spec2Model ----------------------------
(***************************************************************************)
(* A model of the synthetic climate dataset generator                      *)
(* (mdtf_data_decimator): the rectilinear grid builder, the monthly        *)
(* no-leap time axis, the seeded random field generator, the NCAR dataset  *)
(* assembler and the NetCDF encoding rule.                                 *)
(*                                                                         *)
(* Floating-point expressions are modelled with their real-number          *)
(* semantics on exact rationals <<numerator, denominator>>; the only       *)
(* non-finite value the code can produce, the quotient by a zero floor, is *)
(* the value Inf.                                                          *)
(***************************************************************************)
EXTENDS Integers, Sequences, FiniteSets, TLC

VARIABLES
    grid,       \* the last construct_rect_grid call: arguments, warnings, result
    taxis,      \* the last generate_monthly_time_axis call: arguments and result
    rng,        \* state of the process-wide generator (np.random)
    field,      \* the last generate_random_array call: arguments and result
    prevField,  \* the generate_random_array call before that one
    dset,       \* the last generate_ncar_dataset call: arguments and outcome
    enc         \* the last write_to_netcdf call: variables and their encodings

vars == <<grid, taxis, rng, field, prevField, dset, enc>>

Idle == [op |-> "none"]

(***************************************************************************)
(* Exact rational arithmetic                                               *)
(***************************************************************************)
Abs(x) == IF x < 0 THEN -x ELSE x

RECURSIVE GCD(_, _)
GCD(a, b) == IF b = 0 THEN a ELSE GCD(b, a % b)

\* the reduced fraction n/d, d > 0
Rat(n, d) ==
    LET g == GCD(Abs(n), Abs(d))
        s == IF d < 0 THEN -1 ELSE 1
    IN  <<(s * n) \div g, (s * d) \div g>>

Inf == <<1, 0>>
IsInf(r) == r[2] = 0
RInt(n) == <<n, 1>>

RAdd(a, b) == Rat(a[1] * b[2] + b[1] * a[2], a[2] * b[2])
RSub(a, b) == Rat(a[1] * b[2] - b[1] * a[2], a[2] * b[2])
RMul(a, b) == Rat(a[1] * b[1], a[2] * b[2])
\* float division as numpy performs it: x / 0.0 is inf (with a RuntimeWarning)
RDiv(a, b) == IF b[1] = 0 THEN Inf ELSE Rat(a[1] * b[2], a[2] * b[1])
RLt(a, b) == a[1] * b[2] < b[1] * a[2]
RLe(a, b) == a[1] * b[2] <= b[1] * a[2]
RFloor(a) == a[1] \div a[2]
RCeil(a) == -((-a[1]) \div a[2])
\* Python's float %, for a positive divisor
RMod(a, b) == RSub(a, RMul(RInt(RFloor(RDiv(a, b))), b))
RHalf(a) == RDiv(a, RInt(2))

(***************************************************************************)
(* GridBuilder: construct_rect_grid (coarseners.py)                        *)
(***************************************************************************)
\* denominators of the requested spacings are 2^0 .. 2^MaxHalvings, so that
\* every requested spacing is a value a float holds exactly
MaxHalvings == 1

SpacingNums == {7, 20, 45, 50, 90, 180, 200, 360, 400}

RECURSIVE Pow2(_)
Pow2(k) == IF k = 0 THEN 1 ELSE 2 * Pow2(k - 1)

Spacings == {Rat(n, Pow2(k)) : n \in SpacingNums, k \in 0..MaxHalvings}

LatSpan == RInt(180)
LonSpan == RInt(360)

NpCeil(x) == RInt(RCeil(x))
\* np.floor
NpFloor(x) == RInt(RFloor(x))

\* "if 180.0 % dlat != 0: dlat = 180.0 / np.floor(180.0 / dlat); warnings.warn(...)"
AdjustSpacing(span, d) ==
    IF RMod(span, d) # RInt(0)
    THEN [value |-> RDiv(span, NpFloor(RDiv(span, d))), warned |-> TRUE]
    ELSE [value |-> d, warned |-> FALSE]

\* np.arange(start, stop, step): ceil((stop - start) / step) values start + i*step;
\* a non-finite start or step has no length and raises ValueError
ArangeFails(start, step) == IsInf(start) \/ IsInf(step)

ArangeLen(start, stop, step) ==
    LET n == RCeil(RDiv(RSub(stop, start), step))
    IN  IF n < 0 THEN 0 ELSE n

Arange(start, stop, step) ==
    [i \in 1..ArangeLen(start, stop, step) |-> RAdd(start, RMul(RInt(i - 1), step))]

Warning(axis, value) == [axis |-> axis, adjusted_to |-> value]

construct_rect_grid(dlon, dlat) ==
    LET a == AdjustSpacing(LatSpan, dlat)
        b == AdjustSpacing(LonSpan, dlon)
        warned == (IF a.warned THEN <<Warning("dlat", a.value)>> ELSE <<>>)
                  \o (IF b.warned THEN <<Warning("dlon", b.value)>> ELSE <<>>)
        latStart == IF IsInf(a.value) THEN Inf ELSE RAdd(RInt(-90), RHalf(a.value))
        lonStart == IF IsInf(b.value) THEN Inf ELSE RAdd(RInt(0), RHalf(b.value))
    IN  IF ArangeFails(latStart, a.value) \/ ArangeFails(lonStart, b.value)
        THEN [status |-> "ValueError", warnings |-> warned,
              dlat |-> a.value, dlon |-> b.value, lat |-> <<>>, lon |-> <<>>]
        ELSE [status |-> "ok", warnings |-> warned,
              dlat |-> a.value, dlon |-> b.value,
              lat |-> Arange(latStart, RInt(90), a.value),
              lon |-> Arange(lonStart, RInt(360), b.value)]

\* the keyword parameters construct_rect_grid declares
GridParams == {"dlon", "dlat"}

\* a call construct_rect_grid(dlon, dlat, **kwargs) with both spacings passed
\* by position: Python binds the arguments first and raises TypeError on a
\* keyword that the signature does not declare or that is bound already
call_construct_rect_grid(dlon, dlat, kwargs) ==
    IF kwargs \subseteq (GridParams \ {"dlon", "dlat"})
    THEN construct_rect_grid(dlon, dlat)
    ELSE [status |-> "TypeError", warnings |-> <<>>,
          dlat |-> dlat, dlon |-> dlon, lat |-> <<>>, lon |-> <<>>]

\* one call construct_rect_grid(dlon, dlat) on the requested spacings
ConstructRectGrid ==
    /\ grid.op = "request"
    /\ grid' = [op |-> "construct_rect_grid", dlon |-> grid.dlon, dlat |-> grid.dlat,
                res |-> call_construct_rect_grid(grid.dlon, grid.dlat, {})]
    /\ UNCHANGED <<taxis, rng, field, prevField, dset, enc>>

InitGrid ==
    /\ grid \in {[op |-> "request", dlon |-> dlon, dlat |-> dlat] :
                    dlon \in Spacings, dlat \in Spacings}
    /\ taxis = Idle
    /\ rng = 0
    /\ field = Idle
    /\ prevField = Idle
    /\ dset = Idle
    /\ enc = Idle

NextGrid == ConstructRectGrid

SpecGrid == InitGrid /\ [][NextGrid]_vars

(***************************************************************************)
(* Properties of the grid builder                                          *)
(***************************************************************************)
RangeOf(seq) == {seq[i] : i \in 1..Len(seq)}

GridDone == grid.op = "construct_rect_grid"

\* v is a finite positive spacing that divides span evenly
Divides(span, v) == ~IsInf(v) /\ v[1] > 0 /\ RMod(span, v) = RInt(0)

\* the spacing the grid is said to use: d itself when it divides span evenly,
\* otherwise span / floor(span / d)
EffSpacing(span, d) ==
    IF RMod(span, d) = RInt(0) THEN d ELSE RDiv(span, RInt(RFloor(RDiv(span, d))))

RDist(a, b) == IF RLt(a, b) THEN RSub(b, a) ELSE RSub(a, b)

\* v is a valid divisor of span and no span/k lies closer to the request d
IsNearestDivisor(v, span, d) ==
    /\ Divides(span, v)
    /\ \A k \in 1..(RFloor(RDiv(span, d)) + 1) :
          RLe(RDist(v, d), RDist(RDiv(span, RInt(k)), d))

\* v is a valid divisor of span, not below the request d, and no span/k lies
\* in between
IsNextDivisorAbove(v, span, d) ==
    /\ Divides(span, v)
    /\ RLe(d, v)
    /\ \A k \in 1..(RFloor(RDiv(span, d)) + 1) :
          RLe(d, RDiv(span, RInt(k))) => RLe(v, RDiv(span, RInt(k)))

Requested(axis) == IF axis = "dlat" THEN grid.dlat ELSE grid.dlon
Used(axis) == IF axis = "dlat" THEN grid.res.dlat ELSE grid.res.dlon
SpanOf(axis) == IF axis = "dlat" THEN LatSpan ELSE LonSpan

\* C1: for every dlat > 0 and dlon > 0 the call returns a grid whose effective
\* spacings divide 180 and 360 evenly, with 180/d_lat latitude centers running
\* from -90 + d_lat/2 to 90 - d_lat/2 and 360/d_lon longitude centers starting
\* at d_lon/2.
C1_GridContract ==
    GridDone =>
        LET dl == EffSpacing(LatSpan, grid.dlat)
            dn == EffSpacing(LonSpan, grid.dlon)
            r  == grid.res
        IN  /\ r.status = "ok"
            /\ Divides(LatSpan, dl)
            /\ Divides(LonSpan, dn)
            /\ RInt(Len(r.lat)) = RDiv(LatSpan, dl)
            /\ r.lat[1] = RAdd(RInt(-90), RHalf(dl))
            /\ r.lat[Len(r.lat)] = RSub(RInt(90), RHalf(dl))
            /\ RInt(Len(r.lon)) = RDiv(LonSpan, dn)
            /\ r.lon[1] = RHalf(dn)

\* C9 as stated: a spacing that does not divide its span evenly is replaced by
\* the nearest valid divisor, a diagnostic is emitted for it, and a grid is
\* returned.
C9_NearestDivisor ==
    GridDone =>
        \A axis \in {"dlat", "dlon"} :
            RMod(SpanOf(axis), Requested(axis)) # RInt(0) =>
                /\ grid.res.status = "ok"
                /\ IsNearestDivisor(Used(axis), SpanOf(axis), Requested(axis))
                /\ Warning(axis, Used(axis)) \in RangeOf(grid.res.warnings)

\* C9 as amended: a spacing that does not divide its span evenly is replaced by
\* span / floor(span / spacing) and a diagnostic is emitted for it (and for no
\* other spacing); for a request of at most the span the replacement is the
\* smallest valid divisor not below the request; a grid is returned exactly
\* when both requests are at most their spans.
C9_NextDivisorAbove ==
    GridDone =>
        /\ \A axis \in {"dlat", "dlon"} :
              LET span == SpanOf(axis)
                  d == Requested(axis)
              IN  IF RMod(span, d) # RInt(0)
                  THEN /\ Used(axis) = RDiv(span, RInt(RFloor(RDiv(span, d))))
                       /\ Warning(axis, Used(axis)) \in RangeOf(grid.res.warnings)
                       /\ RLe(d, span) => IsNextDivisorAbove(Used(axis), span, d)
                       /\ RLt(span, d) => IsInf(Used(axis))
                  ELSE /\ Used(axis) = d
                       /\ \A w \in RangeOf(grid.res.warnings) : w.axis # axis
        /\ grid.res.status = "ok" <=>
              (RLe(grid.dlat, LatSpan) /\ RLe(grid.dlon, LonSpan))

\* a call that adjusted dlat = 50 to 60 (45 is nearer), warned and returned a grid
C9_Witness ==
    /\ GridDone
    /\ grid.dlat = RInt(50)
    /\ grid.res.dlat = RInt(60)
    /\ Warning("dlat", RInt(60)) \in RangeOf(grid.res.warnings)
    /\ grid.res.status = "ok"
    /\ Len(grid.res.lat) = 3

(***************************************************************************)
(* TimeAxisBuilder: generate_monthly_time_axis (synthetic.py)              *)
(* A timestamp of the no-leap calendar is <<year, month, day>>.            *)
(***************************************************************************)
YearSpan == 2
MaxYears == 5

StartYears == {2000 + k : k \in (-YearSpan)..YearSpan}
Formats == {"ncar", "plain"}

Min(a, b) == IF a < b THEN a ELSE b
Max(a, b) == IF a < b THEN b ELSE a

\* the 0-based position a Python slice index i denotes in a list of length n
SliceIndex(i, n) == IF i < 0 THEN Max(n + i, 0) ELSE Min(i, n)

\* s[a:b]
PySlice(s, a, b) ==
    LET lo == SliceIndex(a, Len(s))
        hi == SliceIndex(b, Len(s))
    IN  IF hi <= lo THEN <<>> ELSE [i \in 1..(hi - lo) |-> s[lo + i]]

\* s[a::]
PySliceFrom(s, a) == PySlice(s, a, Len(s))

\* list(zip(a, b)), as long as the shorter list
ZipSwapped(a, b) == [i \in 1..Min(Len(a), Len(b)) |-> <<b[i], a[i]>>]
Zip(a, b) == [i \in 1..Min(Len(a), Len(b)) |-> <<a[i], b[i]>>]

\* list(zip(years, months, days))
Zip3(a, b, c) ==
    [i \in 1..Min(Len(a), Min(Len(b), Len(c))) |-> <<a[i], b[i], c[i]>>]

\* "years = np.arange(startyear, startyear + nyears);
\*  years = [year for year in years for x in range(12)]"
YearList(startyear, n) ==
    [i \in 1..(12 * Max(n, 0)) |-> startyear + ((i - 1) \div 12)]

\* "months = list(np.arange(1, 13)) * nyears"
MonthList(n) == [i \in 1..(12 * Max(n, 0)) |-> ((i - 1) % 12) + 1]

\* "[days] * len(months)"
DayList(day, months) == [i \in 1..Len(months) |-> day]

TrimNcarShifted(times) == PySlice(times, 0, -12)
\* "times[1:-11]"
TrimNcar(times) == PySlice(times, 1, -11)

\* xr.DataArray(data, coords=(time, ("nbnds", [0, 1]))): the data must be an
\* array of two dimensions, len(time) by 2. An empty list is an array of one
\* dimension, of shape (0,), which two coordinates do not match.
BoundsArrayFits(bounds, times) == Len(bounds) > 0 /\ Len(bounds) = Len(times)

generate_monthly_time_axis(startyear, nyears0, format) ==
    LET nyears == IF format = "ncar" THEN nyears0 + 1 ELSE nyears0
        years  == YearList(startyear, nyears)
        months == MonthList(nyears)
        raw    == Zip3(years, months,
                       DayList(IF format = "ncar" THEN 1 ELSE 15, months))
        times  == IF format = "ncar" THEN TrimNcar(raw) ELSE raw
        stamps == Zip3(years, months, DayList(1, months))
                      \o << <<startyear + nyears, 1, 1>> >>
        pairs  == Zip(PySlice(stamps, 0, -1), PySliceFrom(stamps, 1))
        bounds == IF format = "ncar" THEN PySlice(pairs, 0, -12) ELSE pairs
    IN  IF BoundsArrayFits(bounds, times)
        THEN [status |-> "ok", times |-> times, bounds |-> bounds]
        ELSE [status |-> "ValueError", times |-> <<>>, bounds |-> <<>>]

\* one call generate_monthly_time_axis(startyear, nyears, format)
GenerateMonthlyTimeAxis ==
    /\ taxis.op = "request"
    /\ taxis' = [op |-> "generate_monthly_time_axis",
                 startyear |-> taxis.startyear, nyears |-> taxis.nyears,
                 format |-> taxis.format,
                 res |-> generate_monthly_time_axis(taxis.startyear, taxis.nyears,
                                                    taxis.format)]
    /\ UNCHANGED <<grid, rng, field, prevField, dset, enc>>

InitTime ==
    /\ taxis \in {[op |-> "request", startyear |-> y, nyears |-> n, format |-> f] :
                     y \in StartYears, n \in 0..MaxYears, f \in Formats}
    /\ grid = Idle
    /\ rng = 0
    /\ field = Idle
    /\ prevField = Idle
    /\ dset = Idle
    /\ enc = Idle

NextTime == GenerateMonthlyTimeAxis

SpecTime == InitTime /\ [][NextTime]_vars

(***************************************************************************)
(* Properties of the time axis                                             *)
(***************************************************************************)
TimeDone == taxis.op = "generate_monthly_time_axis"

\* the first day of the month after the one of timestamp t
NextMonthStart(t) == IF t[2] = 12 THEN <<t[1] + 1, 1, 1>> ELSE <<t[1], t[2] + 1, 1>>

\* C2: for every startyear, every nyears >= 0 and both formats the call returns
\* a time sequence and a bounds sequence of the same length, 12 * nyears.
C2_LengthsAgree ==
    TimeDone =>
        /\ taxis.res.status = "ok"
        /\ Len(taxis.res.times) = 12 * taxis.nyears
        /\ Len(taxis.res.bounds) = Len(taxis.res.times)

\* C3: for format "ncar" and nyears >= 1 the call returns 12 * nyears
\* timestamps, consecutive month starts from February 1 of startyear to
\* January 1 of startyear + nyears.
C3_NcarMonths ==
    (TimeDone /\ taxis.format = "ncar" /\ taxis.nyears >= 1) =>
        LET t == taxis.res.times
        IN  /\ taxis.res.status = "ok"
            /\ Len(t) = 12 * taxis.nyears
            /\ t[1] = <<taxis.startyear, 2, 1>>
            /\ t[Len(t)] = <<taxis.startyear + taxis.nyears, 1, 1>>
            /\ \A i \in 1..Len(t) : t[i][3] = 1
            /\ \A i \in 1..(Len(t) - 1) : t[i + 1] = NextMonthStart(t[i])

\* the call of startyear 2000, nyears 2, "ncar": 24 timestamps from
\* 2000-02-01 to 2002-01-01
C3_Witness ==
    /\ TimeDone
    /\ taxis.format = "ncar"
    /\ taxis.startyear = 2000
    /\ taxis.nyears = 2
    /\ Len(taxis.res.times) = 24
    /\ taxis.res.times[1] = <<2000, 2, 1>>
    /\ taxis.res.times[24] = <<2002, 1, 1>>

\* C4: in every bounds sequence the call returns, each bound ends where the
\* next one starts.
C4_BoundsContiguous ==
    (TimeDone /\ taxis.res.status = "ok") =>
        LET b == taxis.res.bounds
        IN  \A i \in 1..(Len(b) - 1) : b[i][2] = b[i + 1][1]

\* an "ncar" call whose bounds were trimmed to 24 pairs, the last one ending
\* at the start of the first dropped bound
C4_Witness ==
    /\ TimeDone
    /\ taxis.format = "ncar"
    /\ taxis.res.status = "ok"
    /\ Len(taxis.res.bounds) = 24
    /\ taxis.res.bounds[24][2] = <<taxis.startyear + 2, 1, 1>>
    /\ taxis.res.bounds[1] = <<<<taxis.startyear, 1, 1>>, <<taxis.startyear, 2, 1>>>>

(***************************************************************************)
(* FieldSynthesizer: generate_random_array (synthetic.py)                  *)
(* np.random is one process-wide generator. It is modelled as a            *)
(* congruential generator on 0..RngMod-1: seeding fixes the state from the *)
(* seed alone, every sample drawn advances the state. Values are kept in   *)
(* halves (fixed point), so that a cast to an integer type really rounds.  *)
(***************************************************************************)
RngMod == 7
MaxTimes == 2

RngStates == 0..(RngMod - 1)
XYShapes == {<<1, 2>>, <<2, 2>>}
DTypes == {"float32", "int32"}

\* stats as the caller passes it: one (mean, stddev) tuple, or a list of them
StatsTuple(pair) == [list |-> FALSE, val |-> pair]
StatsList(pairs) == [list |-> TRUE, val |-> pairs]
StatsChoices ==
    {StatsTuple(<<10, 3>>), StatsList(<< <<10, 3>> >>), StatsList(<< <<10, 3>>, <<0, 1>> >>)}

\* "stats = [stats] if not isinstance(stats, list) else stats"
NormalizeStats(stats) == IF stats.list THEN stats.val ELSE <<stats.val>>

\* the generator's state after one sample
RngStep(s) == (3 * s + 1) % RngMod

RECURSIVE RngStepN(_, _)
RngStepN(s, k) == IF k = 0 THEN s ELSE RngStepN(RngStep(s), k - 1)

SeedKeepsState(state, n) == state
\* np.random.seed(n): the state becomes a function of n alone
Seed(state, n) == (5 * n + 2) % RngMod

\* the sample np.random.normal(mean, stddev) returns in generator state s,
\* in halves: mean + stddev * z, z one of -1, -1/2, 0, 1/2, 1
Normal(pair, s) == 2 * pair[1] + pair[2] * ((s % 5) - 2)

\* ndarray.astype(dtype) of a value in halves: an integer type truncates
\* toward zero, a floating type keeps the value
AsType(v, dtype) ==
    IF dtype = "int32"
    THEN IF v >= 0 THEN 2 * (v \div 2) ELSE -(2 * ((-v) \div 2))
    ELSE v

\* the state of the generator when time step n (0-based) begins, before it is
\* seeded: the state the previous step left
RECURSIVE RngBefore(_, _, _)
RngBefore(rng0, n, draws) ==
    IF n = 0 THEN rng0
    ELSE RngStepN(Seed(RngBefore(rng0, n - 1, draws), n - 1), draws)

\* the shape of np.array(data): (ntimes, len(stats), ny, nx), which collapses
\* to (0,) for an empty list and to (ntimes, 0) for empty stats
ArrayShape(xyshape, ntimes, nstats) ==
    IF ntimes = 0 THEN <<0>>
    ELSE IF nstats = 0 THEN <<ntimes, 0>>
    ELSE <<ntimes, nstats, xyshape[1], xyshape[2]>>

generate_random_array(rng0, xyshape, ntimes, stats0, dtype) ==
    LET stats == NormalizeStats(stats0)
        cells == xyshape[1] * xyshape[2]
        draws == Len(stats) * cells
        seeded(n) == Seed(RngBefore(rng0, n, draws), n)
    IN  [data |-> [t \in 1..ntimes |->
                     [k \in 1..Len(stats) |->
                        [c \in 1..cells |->
                           AsType(Normal(stats[k],
                                         RngStepN(seeded(t - 1), (k - 1) * cells + c)),
                                  dtype)]]],
         shape |-> ArrayShape(xyshape, ntimes, Len(stats)),
         rng |-> RngBefore(rng0, ntimes, draws)]

\* one call generate_random_array(xyshape, ntimes, stats, dtype)
GenerateRandomArray ==
    \E xyshape \in XYShapes, ntimes \in 0..MaxTimes, stats \in StatsChoices,
       dtype \in DTypes :
        LET r == generate_random_array(rng, xyshape, ntimes, stats, dtype)
        IN  /\ field' = [op |-> "generate_random_array", xyshape |-> xyshape,
                         ntimes |-> ntimes, stats |-> stats, dtype |-> dtype,
                         data |-> r.data, shape |-> r.shape]
            /\ prevField' = field
            /\ rng' = r.rng
            /\ UNCHANGED <<grid, taxis, dset, enc>>

\* the generator starts in whatever state the process left it in
InitField ==
    /\ rng \in RngStates
    /\ field = Idle
    /\ prevField = Idle
    /\ grid = Idle
    /\ taxis = Idle
    /\ dset = Idle
    /\ enc = Idle

NextField == GenerateRandomArray

SpecField == InitField /\ [][NextField]_vars

(***************************************************************************)
(* Properties of the field synthesizer                                     *)
(***************************************************************************)
FieldDone(f) == f.op = "generate_random_array"

SameButTimes(f, g) ==
    f.xyshape = g.xyshape /\ f.stats = g.stats /\ f.dtype = g.dtype

\* C5: two calls with the same (xy_shape, n_times, stats, dtype) return the
\* same array whatever the generator's state before each, and of two calls
\* that differ in n_times only the shorter array is the beginning of the longer.
C5_DeterministicPrefixStable ==
    (FieldDone(field) /\ FieldDone(prevField) /\ SameButTimes(field, prevField)) =>
        /\ field.ntimes = prevField.ntimes => field.data = prevField.data
        /\ \A t \in 1..Min(field.ntimes, prevField.ntimes) :
              field.data[t] = prevField.data[t]

\* two consecutive calls that differ in n_times only (1 and 2 steps), the
\* second one started from the generator state the first one left
C5_Witness ==
    /\ FieldDone(field)
    /\ FieldDone(prevField)
    /\ SameButTimes(field, prevField)
    /\ prevField.ntimes = 1
    /\ field.ntimes = 2
    /\ field.data[1] = prevField.data[1]
    /\ field.data[2] # field.data[1]

\* C10: a call of synthesize_field leaves the process-wide generator's state
\* unchanged (no shared mutable global state).
C10_GeneratorUntouched == [][rng' = rng]_vars

(***************************************************************************)
(* DatasetAssembler: generate_ncar_dataset (synthetic.py)                  *)
(***************************************************************************)
\* the number of levels of ncar_hybrid_coord()
NLev == 60

DataSpacings == {RInt(20), RInt(50), RInt(180), RInt(360)}
DataStartYears == {1975, 2000}
MaxDataYears == 2

LevelStats(n) == StatsList([i \in 1..n |-> <<i, 1>>])
DataStats == {StatsTuple(<<10, 3>>), LevelStats(1), LevelStats(3), LevelStats(NLev)}

NoDataset == [dims |-> <<>>]

\* ndarray.squeeze(): every axis of length 1 is dropped
Squeeze(shape) == SelectSeq(shape, LAMBDA n : n # 1)

\* xr.DataArray(data, coords=...): the data's shape must be the coordinates'
\* lengths, in order, or the constructor raises ValueError
DataArrayFits(shape, coordLens) == shape = coordLens

RaiseSwallowed(exc, rngNow) ==
    [status |-> "ok", ds |-> [dims |-> <<"lat", "lon">>], rng |-> rngNow]
\* an exception leaves generate_ncar_dataset: the caller gets no Dataset
Raise(exc, rngNow) == [status |-> exc, ds |-> NoDataset, rng |-> rngNow]

\* lines 106-122: the field of shape (ntimes, len(stats), ny, nx), squeezed,
\* and its DataArray on (time, lev, lat, lon) or (time, lat, lon)
assemble_field(rng0, stats0, xyshape, ntimes) ==
    LET stats == NormalizeStats(stats0)
        rng1  == RngBefore(rng0, ntimes, Len(stats) * xyshape[1] * xyshape[2])
        shape == Squeeze(ArrayShape(xyshape, ntimes, Len(stats)))
    IN  IF Len(shape) = 4
        THEN IF shape[2] # NLev THEN Raise("AssertionError", rng1)
             ELSE IF ~DataArrayFits(shape, <<ntimes, NLev, xyshape[1], xyshape[2]>>)
             THEN Raise("ValueError", rng1)
             ELSE [status |-> "ok", rng |-> rng1,
                   ds |-> [dims |-> <<"time", "lev", "lat", "lon">>]]
        ELSE IF ~DataArrayFits(shape, <<ntimes, xyshape[1], xyshape[2]>>)
             THEN Raise("ValueError", rng1)
             ELSE [status |-> "ok", rng |-> rng1,
                   ds |-> [dims |-> <<"time", "lat", "lon">>]]

\* lines 97-122: the time axis of the "ncar" format, then the field
assemble_on_grid(rng0, stats0, xyshape, startyear, nyears) ==
    LET t == generate_monthly_time_axis(startyear, nyears, "ncar")
    IN  IF t.status # "ok" THEN Raise(t.status, rng0)
        ELSE assemble_field(rng0, stats0, xyshape, Len(t.times))

generate_ncar_dataset(rng0, stats0, dlon, dlat, startyear, nyears) ==
    LET g == call_construct_rect_grid(dlon, dlat, {"add_attrs"})
    IN  IF g.status # "ok" THEN Raise(g.status, rng0)
        ELSE assemble_on_grid(rng0, stats0, <<Len(g.lat), Len(g.lon)>>,
                              startyear, nyears)

\* one call generate_ncar_dataset(stats, dlon, dlat, startyear, nyears, varname)
GenerateNcarDataset ==
    /\ dset.op = "request"
    /\ LET r == generate_ncar_dataset(rng, dset.stats, dset.dlon, dset.dlat,
                                      dset.startyear, dset.nyears)
       IN  /\ dset' = [op |-> "generate_ncar_dataset", stats |-> dset.stats,
                       dlon |-> dset.dlon, dlat |-> dset.dlat,
                       startyear |-> dset.startyear, nyears |-> dset.nyears,
                       status |-> r.status, ds |-> r.ds]
           /\ rng' = r.rng
    /\ UNCHANGED <<grid, taxis, field, prevField, enc>>

InitData ==
    /\ dset \in {[op |-> "request", stats |-> st, dlon |-> dlon, dlat |-> dlat,
                  startyear |-> y, nyears |-> n] :
                    st \in DataStats, dlon \in DataSpacings, dlat \in DataSpacings,
                    y \in DataStartYears, n \in 1..MaxDataYears}
    /\ rng \in RngStates
    /\ grid = Idle
    /\ taxis = Idle
    /\ field = Idle
    /\ prevField = Idle
    /\ enc = Idle

NextData == GenerateNcarDataset

SpecData == InitData /\ [][NextData]_vars

(***************************************************************************)
(* Properties of the dataset assembler                                     *)
(***************************************************************************)
DataDone == dset.op = "generate_ncar_dataset"

NStats == Len(NormalizeStats(dset.stats))

\* C6: every valid call (one statistics pair, or a list of 60 pairs) returns a
\* Dataset whose field has 3 dimensions (time, lat, lon) for a single pair and
\* 4 (time, lev, lat, lon) for the 60 pairs, on every grid, single-row and
\* single-column grids included.
C6_FieldDimensions ==
    (DataDone /\ NStats \in {1, NLev}) =>
        /\ dset.status = "ok"
        /\ NStats = 1 => dset.ds.dims = <<"time", "lat", "lon">>
        /\ NStats = NLev => dset.ds.dims = <<"time", "lev", "lat", "lon">>

\* C7: with more than one statistics pair, and not as many as the vertical
\* coordinate has levels, the call ends in an error and returns no Dataset.
C7_MismatchAborts ==
    (DataDone /\ NStats > 1 /\ NStats # NLev) =>
        /\ dset.status # "ok"
        /\ dset.ds = NoDataset

\* a finished call with a 3-element stats list
C7_Witness ==
    /\ DataDone
    /\ NStats = 3
    /\ dset.status # "ok"
    /\ dset.ds = NoDataset

(***************************************************************************)
(* NetCDFEncoder: write_to_netcdf (synthetic.py)                           *)
(* str(dtype) is a sequence of characters, so that the substring tests are *)
(* computed. An encoding is a record of the keys that were set. The        *)
(* Dataset comes fresh from the assembler: no encoding is set beforehand.  *)
(***************************************************************************)
MaxVars == 2

VarNames == {"time", "time_bnds", "date", "lat", "lev", "PS"}

Float32Str  == <<"f", "l", "o", "a", "t", "3", "2">>
Float64Str  == <<"f", "l", "o", "a", "t", "6", "4">>
Int32Str    == <<"i", "n", "t", "3", "2">>
Int64Str    == <<"i", "n", "t", "6", "4">>
UInt8Str    == <<"u", "i", "n", "t", "8">>
ObjectStr   == <<"o", "b", "j", "e", "c", "t">>
BoolStr     == <<"b", "o", "o", "l">>
Complex64Str == <<"c", "o", "m", "p", "l", "e", "x", "6", "4">>

DTypeStrs == {Float32Str, Float64Str, Int32Str, Int64Str, UInt8Str, ObjectStr,
              BoolStr, Complex64Str}

\* sub in s, for strings
Contains(sub, s) ==
    \E i \in 0..(Len(s) - Len(sub)) : \A j \in 1..Len(sub) : s[i + j] = sub[j]

FloatWord == <<"f", "l", "o", "a", "t">>
IntWord == <<"i", "n", "t">>

TimeUnits == "days since 1975-01-01"

EncodeVarDtypeFirst(name, dtype) ==
    IF Contains(FloatWord, dtype) THEN [_FillValue |-> "1.0e20"]
    ELSE IF Contains(IntWord, dtype) THEN [_FillValue |-> "-999"]
    ELSE IF name = "time" THEN [dtype |-> "i4", units |-> TimeUnits]
    ELSE IF name = "time_bnds" THEN [dtype |-> "i4", units |-> TimeUnits]
    ELSE IF name = "date" THEN [dtype |-> "i4"]
    ELSE [_FillValue |-> "None"]
\* the keys one pass of the loop sets in dset_out[var].encoding
EncodeVar(name, dtype) ==
    IF name = "time" THEN [dtype |-> "i4", units |-> TimeUnits]
    ELSE IF name = "time_bnds" THEN [dtype |-> "i4", units |-> TimeUnits]
    ELSE IF name = "date" THEN [dtype |-> "i4"]
    ELSE IF Contains(FloatWord, dtype) THEN [_FillValue |-> "1.0e20"]
    ELSE IF Contains(IntWord, dtype) THEN [_FillValue |-> "-999"]
    ELSE [_FillValue |-> "None"]

\* the Datasets handed to the encoder: up to MaxVars variables, name -> str(dtype)
Datasets ==
    UNION {[names -> DTypeStrs] :
              names \in {n \in SUBSET VarNames : Cardinality(n) \in 1..MaxVars}}

\* one call write_to_netcdf(dset_out, outfile); to_netcdf writes the file or
\* raises, after the encodings were set
WriteToNetcdf ==
    /\ enc.op = "request"
    /\ \E io \in {"written", "OSError"} :
          enc' = [op |-> "write_to_netcdf", variables |-> enc.variables,
                  encoding |-> [v \in DOMAIN enc.variables |->
                                    EncodeVar(v, enc.variables[v])],
                  status |-> io]
    /\ UNCHANGED <<grid, taxis, rng, field, prevField, dset>>

InitEnc ==
    /\ enc \in {[op |-> "request", variables |-> d] : d \in Datasets}
    /\ grid = Idle
    /\ taxis = Idle
    /\ rng = 0
    /\ field = Idle
    /\ prevField = Idle
    /\ dset = Idle

NextEnc == WriteToNetcdf

SpecEnc == InitEnc /\ [][NextEnc]_vars

(***************************************************************************)
(* Properties of the encoder                                               *)
(***************************************************************************)
EncDone == enc.op = "write_to_netcdf"

\* what numpy says a dtype is
IsFloating(dtype) == dtype \in {Float32Str, Float64Str}
IsInteger(dtype) == dtype \in {Int32Str, Int64Str, UInt8Str}

\* C8: time and time_bnds get 4-byte integer storage with the units "days
\* since 1975-01-01", date gets 4-byte integer storage, and none of the three
\* gets a fill value, whatever its dtype; every other floating-point variable
\* gets the fill value 1.0e20, every other integer variable -999, and any
\* other variable none. The encoding depends on name and dtype only.
C8_EncodingRule ==
    EncDone =>
        \A v \in DOMAIN enc.variables :
            LET e == enc.encoding[v]
                dt == enc.variables[v]
            IN  /\ v \in {"time", "time_bnds"} =>
                      e = [dtype |-> "i4", units |-> "days since 1975-01-01"]
                /\ v = "date" => e = [dtype |-> "i4"]
                /\ v \in {"time", "time_bnds", "date"} => "_FillValue" \notin DOMAIN e
                /\ v \notin {"time", "time_bnds", "date"} =>
                      /\ DOMAIN e = {"_FillValue"}
                      /\ IsFloating(dt) => e._FillValue = "1.0e20"
                      /\ IsInteger(dt) => e._FillValue = "-999"
                      /\ (~IsFloating(dt) /\ ~IsInteger(dt)) => e._FillValue = "None"

\* a Dataset with a float64 time, which got no fill value, beside a float32
\* field, which got 1.0e20
C8_Witness ==
    /\ EncDone
    /\ DOMAIN enc.variables = {"time", "PS"}
    /\ enc.variables["time"] = Float64Str
    /\ enc.variables["PS"] = Float32Str
    /\ "_FillValue" \notin DOMAIN enc.encoding["time"]
    /\ enc.encoding["PS"]._FillValue = "1.0e20"

=============================================================================
